---- MODULE Spec2Model ----
(***************************************************************************)
(* Video Object Identifier: the detection client (geminiService.ts), the   *)
(* frame annotator and the App component's run / pipeline orchestration.   *)
(*                                                                         *)
(* Conventions.  A nullable value is a sequence of length 0 (null,         *)
(* undefined) or 1 (the value).  A text is a sequence of tokens: each      *)
(* token is one whitespace character, one JSON punctuation character, or a *)
(* complete JSON literal.  Floating point rounding is not modelled:        *)
(* coordinates are exact rationals over a common denominator.              *)
(***************************************************************************)
EXTENDS Integers, Sequences, FiniteSets, TLC

VARIABLES
    \* ---- build / environment
    apiKey,        \* process.env.API_KEY is set
    \* ---- identifyObjectsInVideo: one invocation (geminiService.ts 76-197)
    pc,            \* "idle" | "encoding" | "calling" | "waiting" | "returned" | "thrown"
    i,             \* loop variable of the retry loop
    delay,         \* let delay
    args,          \* nullable [file, targets]: the arguments of the invocation
    result,        \* nullable IdentifyResult: the value the promise resolved with
    thrown,        \* nullable error: the value the promise rejected with
    \* ---- history of the invocation (observations, not program state)
    calls,         \* number of ai.models.generateContent calls made
    encodes,       \* number of fileToBase64 calls made
    waits,         \* the setTimeout delays awaited, in order
    log,           \* how each generateContent call settled, in order
    lastResp,      \* nullable: the response of the latest call, once it resolved
    \* ---- App component state (useState)
    videoFile,         \* nullable file
    query,             \* text of the query input
    identifiedObjects, \* sequence of IdentifiedObject
    rawJsonOutput,     \* nullable text
    isLoading,
    error,             \* nullable message
    \* ---- the per-object async closures of handleIdentifyClick
    pipelines,         \* set of [run, index, tok, file, stage]
    \* ---- history (observations, not program state)
    runs,              \* number of runs that passed validation
    listRun,           \* the run whose results identifiedObjects holds, 0: none
    \* ---- drawBoundingBoxOnImage: one invocation on its own
    dBox, dW, dH,      \* the box and the decoded image's size
    dPc,               \* "loading" | "resolved" | "rejected"
    dOut,              \* nullable: the image the promise resolved with
    dErr,              \* nullable: the reason the promise rejected with
    \* ---- extractFrameFromVideo: one invocation on its own (part_002 28-75)
    eTime,             \* timeInSeconds
    eVideo,            \* the file's content: [duration, valid]
    ePc,               \* "idle" | "pending" | "resolved" | "rejected"
    eListeners,        \* the events the video element has a listener for
    eUrl,              \* "none" | "live" | "revoked": the object URL
    eMedia,            \* "empty" | "loading" | "metadata" | "seeking" | "seeked" | "error"
    eCurrentTime,      \* video.currentTime
    eOut,              \* nullable: the frame the promise resolved with
    eErr,              \* nullable: the reason the promise rejected with
    \* ---- history of the invocation (observations, not program state)
    eFrames,           \* the positions drawn to the canvas, in order
    eSettles           \* number of resolve / reject calls made

svcVars == <<pc, i, delay, args, result, thrown, calls, encodes, waits, log, lastResp>>

appVars == <<videoFile, query, identifiedObjects, rawJsonOutput, isLoading, error>>

runVars == <<pipelines, runs, listRun>>

drawVars == <<dBox, dW, dH, dPc, dOut, dErr>>

exVars == <<eTime, eVideo, ePc, eListeners, eUrl, eMedia, eCurrentTime, eOut, eErr,
            eFrames, eSettles>>

vars == <<apiKey, svcVars, appVars, runVars, drawVars, exVars>>

Null == <<>>
Some(x) == <<x>>

\* ------------------------------------------------------------------ bounds
MaxTextLen == 3
MaxRuns == 2
MaxDuration == 3
MaxQueryLen == 4

\* ------------------------------------------------------------------ texts
SP == " "
ObjTokens == {"a", "b", "c"}
Tokens == {SP, "[", "]", ",", "null", "overloaded"} \cup ObjTokens

SeqsUpTo(S, n) == UNION {[1..k -> S] : k \in 0..n}

Texts == SeqsUpTo(Tokens, MaxTextLen)

RECURSIVE TrimStart(_)
TrimStart(t) == IF t # <<>> /\ Head(t) = SP THEN TrimStart(Tail(t)) ELSE t

RECURSIVE TrimEnd(_)
TrimEnd(t) ==
    IF t # <<>> /\ t[Len(t)] = SP THEN TrimEnd(SubSeq(t, 1, Len(t) - 1)) ELSE t

\* String.prototype.trim
Trim(t) == TrimEnd(TrimStart(t))

\* String.prototype.includes, on whole tokens
Includes(msg, tok) == \E k \in 1..Len(msg) : msg[k] = tok

\* JSON whitespace between tokens is insignificant
NoWs(t) == SelectSeq(t, LAMBDA x : x # SP)

Fail == [ok |-> FALSE, next |-> 0, elems |-> <<>>]

\* The elements of a JSON array whose "[" is at s[p]: [ok, next, elems].
\* An element is an object literal or null (its token), or a nested array
\* (kept as "array": the callers only read .name of an element).
RECURSIVE ParseArray(_, _)
RECURSIVE ParseElems(_, _, _)
ParseElems(s, p, acc) ==
    IF p > Len(s) THEN Fail
    ELSE LET el == IF s[p] \in ObjTokens \cup {"null"}
                   THEN [ok |-> TRUE, next |-> p + 1, el |-> s[p]]
                   ELSE IF s[p] = "["
                   THEN LET r == ParseArray(s, p)
                        IN  [ok |-> r.ok, next |-> r.next, el |-> "array"]
                   ELSE [ok |-> FALSE, next |-> 0, el |-> ""]
         IN  IF ~el.ok \/ el.next > Len(s) THEN Fail
             ELSE IF s[el.next] = "]"
             THEN [ok |-> TRUE, next |-> el.next + 1, elems |-> Append(acc, el.el)]
             ELSE IF s[el.next] = ","
             THEN ParseElems(s, el.next + 1, Append(acc, el.el))
             ELSE Fail
ParseArray(s, p) ==
    IF p + 1 > Len(s) THEN Fail
    ELSE IF s[p + 1] = "]" THEN [ok |-> TRUE, next |-> p + 2, elems |-> <<>>]
    ELSE ParseElems(s, p + 1, <<>>)

\* JSON.parse: [ok, isArray, elems, scalar]; ~ok is a thrown SyntaxError.
JSONParse(t) ==
    LET s == NoWs(t)
        bad == [ok |-> FALSE, isArray |-> FALSE, elems |-> <<>>, scalar |-> ""]
    IN  IF s = <<>> THEN bad
        ELSE IF s[1] = "["
        THEN LET r == ParseArray(s, 1)
             IN  IF r.ok /\ r.next = Len(s) + 1
                 THEN [ok |-> TRUE, isArray |-> TRUE, elems |-> r.elems, scalar |-> ""]
                 ELSE bad
        ELSE IF Len(s) = 1 /\ s[1] \in ObjTokens \cup {"null"}
        THEN [ok |-> TRUE, isArray |-> FALSE, elems |-> <<>>, scalar |-> s[1]]
        ELSE bad

\* The message of the SyntaxError JSON.parse throws is the engine's own: V8
\* quotes the offending text in it, other engines give a position only.
SyntaxErrorMessages(t) ==
    { <<"Unexpected", "token">> \o t \o <<"is", "not", "valid", "JSON">>,
      <<"JSON.parse:", "unexpected", "character">> }

\* The TypeError of reading .trim of an undefined response.text
TrimTypeErrorMessage == <<"Cannot", "read", "properties", "of", "undefined">>

\* What the provider's rejections say.  <<>> is an error without a message.
CallErrorMessages ==
    { <<"503", "Service", "Unavailable">>,
      <<"status:", "UNAVAILABLE">>,
      <<"The", "model", "is", "overloaded">>,
      <<"429", "quota", "exceeded">>,
      <<"400", "invalid", "argument">>,
      <<>> }

\* ------------------------------------------------------ the detection client
Files == {"v1"}
USE_MOCK_DATA == FALSE
maxRetries == 3
InitialDelay == 1000

ErrApiKey == "API_KEY environment variable is not set."
ErrFailed == "Failed to identify objects in the video. The model may have returned an error or invalid data after multiple retries."
ErrExhausted == "Exhausted all retries to the Gemini API."

Error(m) == [isError |-> TRUE, message |-> m]
\* fileToBase64 rejects with the FileReader's ProgressEvent, which is no Error
ReaderEvent == [isError |-> FALSE, message |-> "ProgressEvent"]

\* Mutant of IdentifyResult: the parsed objects are dropped
IdentifyResultWithoutObjects(parsed, raw) ==
    [isArray |-> TRUE, elems |-> <<>>, scalar |-> "", rawJson |-> raw]

IdentifyResult(parsed, raw) ==
    [isArray |-> parsed.isArray, elems |-> parsed.elems,
     scalar |-> parsed.scalar, rawJson |-> raw]

\* Mutant of EmptyResult: the raw JSON of an empty text is the empty text
EmptyResultWithoutBrackets ==
    [isArray |-> TRUE, elems |-> <<>>, scalar |-> "", rawJson |-> <<>>]

\* return { objects: [], rawJson: '[]' }
EmptyResult ==
    [isArray |-> TRUE, elems |-> <<>>, scalar |-> "", rawJson |-> <<"[", "]">>]

getMockData(targets) ==
    [isArray |-> TRUE, elems |-> <<"a", "b", "c", "a">>, scalar |-> "",
     rawJson |-> <<"[", "a", ",", "b", ",", "c", ",", "a", "]">>]

\* Mutant of IsBlank: the empty text is not special-cased
IsBlankNever(text) == FALSE

\* if (!text)
IsBlank(text) == text = <<>>

isServiceUnavailable(msg) ==
    Includes(msg, "503") \/ Includes(msg, "UNAVAILABLE") \/ Includes(msg, "overloaded")

\* Mutant of RetryAllowed: a transient failure is always retried
RetryAlwaysAllowed(n) == TRUE

\* Mutant of RetryAllowed: the last attempt is retried too
RetryAllowedOnLastAttempt(n) == n < maxRetries

RetryAllowed(n) == n < maxRetries - 1

\* Mutant of NextDelay: the delay is not doubled
NextDelayConstant(d) == d

\* delay *= 2
NextDelay(d) == d * 2

\* Mutant of HasCredential: the credential is not checked
CredentialNotChecked == TRUE

HasCredential == apiKey

SvcIdle ==
    /\ pc = "idle" /\ i = 0 /\ delay = InitialDelay /\ args = Null
    /\ result = Null /\ thrown = Null
    /\ calls = 0 /\ encodes = 0 /\ waits = <<>> /\ log = <<>> /\ lastResp = Null

\* identifyObjectsInVideo(videoFile, targetObjects) up to its first await
identifyObjectsInVideo(file, targets) ==
    /\ args' = Some([file |-> file, targets |-> targets])
    /\ i' = 0 /\ delay' = InitialDelay
    /\ calls' = 0 /\ waits' = <<>> /\ log' = <<>> /\ lastResp' = Null
    /\ IF USE_MOCK_DATA
       THEN /\ pc' = "returned" /\ result' = Some(getMockData(targets))
            /\ thrown' = Null /\ encodes' = 0
       ELSE IF ~HasCredential
       THEN /\ pc' = "thrown" /\ thrown' = Some(Error(ErrApiKey))
            /\ result' = Null /\ encodes' = 0
       ELSE /\ pc' = "encoding" /\ encodes' = 1
            /\ result' = Null /\ thrown' = Null

\* await fileToBase64(videoFile) resolves: the loop starts, the first call is made
EncodeResolves ==
    /\ pc = "encoding"
    /\ IF 0 < maxRetries
       THEN pc' = "calling" /\ calls' = calls + 1 /\ thrown' = thrown
       ELSE pc' = "thrown" /\ calls' = calls /\ thrown' = Some(Error(ErrExhausted))
    /\ UNCHANGED <<appVars, runVars, drawVars, exVars, apiKey, i, delay, args, result, encodes, waits, log, lastResp>>

\* reader.onerror: the rejection leaves identifyObjectsInVideo as it is
EncodeRejects ==
    /\ pc = "encoding"
    /\ pc' = "thrown" /\ thrown' = Some(ReaderEvent)
    /\ UNCHANGED <<appVars, runVars, drawVars, exVars, apiKey, i, delay, args, result, calls, encodes, waits, log, lastResp>>

\* The catch block of the retry loop, for an error with message msg.
Catch(msg) ==
    IF isServiceUnavailable(msg) /\ RetryAllowed(i)
    THEN /\ pc' = "waiting" /\ waits' = Append(waits, delay)
         /\ UNCHANGED <<result, thrown>>
    ELSE /\ pc' = "thrown" /\ thrown' = Some(Error(ErrFailed))
         /\ UNCHANGED <<result, waits>>

\* generateContent resolves with a response whose text is one of T, or missing
GenerateContentResolves(T) ==
    /\ pc = "calling"
    /\ \E resp \in {Null} \cup {Some(t) : t \in T} :
        /\ lastResp' = Some(resp)
        /\ IF resp = Null
           THEN /\ log' = Append(log, [kind |-> "noText", msg |-> <<>>])
                /\ Catch(TrimTypeErrorMessage)
           ELSE LET text == Trim(resp[1])
                    parsed == JSONParse(text)
                IN  IF IsBlank(text)
                    THEN /\ log' = Append(log, [kind |-> "ok", msg |-> <<>>])
                         /\ pc' = "returned" /\ result' = Some(EmptyResult)
                         /\ UNCHANGED <<thrown, waits>>
                    ELSE IF parsed.ok
                    THEN /\ log' = Append(log, [kind |-> "ok", msg |-> <<>>])
                         /\ pc' = "returned"
                         /\ result' = Some(IdentifyResult(parsed, text))
                         /\ UNCHANGED <<thrown, waits>>
                    ELSE /\ log' = Append(log, [kind |-> "badJson", msg |-> <<>>])
                         /\ \E m \in SyntaxErrorMessages(text) : Catch(m)
    /\ UNCHANGED <<appVars, runVars, drawVars, exVars, apiKey, i, delay, args, calls, encodes>>

\* generateContent rejects with an error whose message is one of M
GenerateContentRejects(M) ==
    /\ pc = "calling"
    /\ \E m \in M :
        /\ log' = Append(log, [kind |-> "callError", msg |-> m])
        /\ Catch(m)
    /\ UNCHANGED <<appVars, runVars, drawVars, exVars, apiKey, i, delay, args, calls, encodes, lastResp>>

\* The setTimeout of the backoff fires: delay *= 2; continue; i++; i < maxRetries
TimerFires ==
    /\ pc = "waiting"
    /\ delay' = NextDelay(delay)
    /\ i' = i + 1
    /\ IF i + 1 < maxRetries
       THEN pc' = "calling" /\ calls' = calls + 1 /\ thrown' = thrown
       ELSE pc' = "thrown" /\ calls' = calls /\ thrown' = Some(Error(ErrExhausted))
    /\ lastResp' = Null
    /\ UNCHANGED <<appVars, runVars, drawVars, exVars, apiKey, args, result, encodes, waits, log>>

\* ------------------------------------------------- drawBoundingBoxOnImage
\* A box holds the numerators of its four coordinates over 20 (0.25 is 5);
\* image sizes are in pixels; pixel coordinates are in twentieths of a pixel.
Max(a, b) == IF a >= b THEN a ELSE b
Min(a, b) == IF a <= b THEN a ELSE b

Box(x0, y0, x1, y1) == [x_min |-> x0, y_min |-> y0, x_max |-> x1, y_max |-> y1]

\* Mutant of ClampLow: the lower clamp is missing
ClampLowMissing(v) == v

\* Math.max(0, v) and Math.min(limit, v)
ClampLow(v) == Max(0, v)
ClampHigh(limit, v) == Min(limit, v)

\* Mutant of HasPositiveSize: an inverted box passes
HasNonZeroSize(width, height) == width # 0 /\ height # 0

\* if (width > 0 && height > 0)
HasPositiveSize(width, height) == width > 0 /\ height > 0

\* Math.max(2, Math.round(Math.min(w, h) / 250)), in pixels
LineWidth(w, h) == Max(2, (2 * Min(w, h) + 250) \div 500)

\* The rectangle strokeRect draws on an image of w by h pixels: null when the
\* box is skipped.
DrawnRect(box, w, h) ==
    LET x1 == ClampLow(box.x_min * w)
        y1 == ClampLow(box.y_min * h)
        x2 == ClampHigh(20 * w, box.x_max * w)
        y2 == ClampHigh(20 * h, box.y_max * h)
        width == x2 - x1
        height == y2 - y1
    IN  IF HasPositiveSize(width, height)
        THEN Some([x |-> x1, y |-> y1, width |-> width, height |-> height,
                   lineWidth |-> LineWidth(w, h)])
        ELSE Null

Coords == {-5, 0, 5, 8, 9, 12, 20, 25}
Sizes == {0, 3, 400}
Boxes == {Box(a, b, c, d) : a \in Coords, b \in Coords, c \in Coords, d \in Coords}

ErrNoContext == "Could not get canvas context"
ErrImageLoad == "Failed to load image for drawing bounding box."

DrawIdle ==
    /\ dBox = Box(0, 0, 0, 0) /\ dW = 0 /\ dH = 0
    /\ dPc = "idle" /\ dOut = Null /\ dErr = Null

\* img.onload: the frame is redrawn, the box stroked when it has a size
ImgOnLoad ==
    /\ dPc = "loading"
    /\ \E ctx \in BOOLEAN :
         IF ~ctx
         THEN dPc' = "rejected" /\ dOut' = Null /\ dErr' = Some(ErrNoContext)
         ELSE /\ dPc' = "resolved" /\ dErr' = Null
              /\ dOut' = Some([width |-> dW, height |-> dH,
                               rect |-> DrawnRect(dBox, dW, dH)])
    /\ UNCHANGED <<apiKey, svcVars, appVars, runVars, exVars, dBox, dW, dH>>

\* img.onerror
ImgOnError ==
    /\ dPc = "loading"
    /\ dPc' = "rejected" /\ dOut' = Null /\ dErr' = Some(ErrImageLoad)
    /\ UNCHANGED <<apiKey, svcVars, appVars, runVars, exVars, dBox, dW, dH>>

\* ---------------------------------------------------------------- the App
ErrNoVideo == "Please upload a video file first."
ErrNoQuery == "Please specify what objects to identify."
\* Mutant of ErrNoMatch: an empty result is reported as the client's failure
ErrNoMatchAsFailure == ErrFailed

ErrNoMatch == "No matching objects were found in the video."
ErrUnknown == "An unknown error occurred during object identification."
\* The TypeErrors of reading .length of null, of calling .map of a value that
\* is no array, and of reading .name of a null element
TypeErrLength == "Cannot read properties of null (reading 'length')"
TypeErrMap == "objectsWithData.map is not a function"
TypeErrName == "Cannot read properties of null (reading 'name')"

\* The object literals a response text can hold
VideoObject(tok) ==
    CASE tok = "a" -> [name |-> "Glock 17", timestamp |-> 2,
                       boundingBox |-> Box(5, 8, 9, 12), price |-> "$500 - $600"]
      [] tok = "b" -> [name |-> "Glock 17", timestamp |-> 5,
                       boundingBox |-> Box(2, 6, 16, 10), price |-> "$500 - $600"]
      [] OTHER     -> [name |-> "AR-15", timestamp |-> 99,
                       boundingBox |-> Box(12, 4, 6, 8), price |-> "$800 - $1200"]

\* The video a user can select: size in pixels, duration in seconds
Video(f) == [width |-> 400, height |-> 400, duration |-> 10]

\* Mutant of SeekTime: the lower clamp is missing
SeekTimeWithoutFloor(timeInSeconds, duration) == Min(timeInSeconds, duration)

\* Math.min(Math.max(0, timeInSeconds), video.duration)
SeekTime(timeInSeconds, duration) == Min(Max(0, timeInSeconds), duration)

\* The data URL a pipeline ends with: the frame extractFrameFromVideo captured
\* and the rectangle drawBoundingBoxOnImage stroked on it; by is the pipeline
\* that made it.
FrameWithBox(p) ==
    LET v == Video(p.file)
        obj == VideoObject(p.tok)
    IN  [file |-> p.file, time |-> SeekTime(obj.timestamp, v.duration),
         rect |-> DrawnRect(obj.boundingBox, v.width, v.height),
         by |-> <<p.run, p.index>>]

\* String.prototype.split(','): the pieces of q between the commas
RECURSIVE Split(_, _)
Split(q, piece) ==
    IF q = <<>> THEN <<piece>>
    ELSE IF Head(q) = "," THEN <<piece>> \o Split(Tail(q), <<>>)
    ELSE Split(Tail(q), Append(piece, Head(q)))

RECURSIVE MapTrim(_)
MapTrim(ps) == IF ps = <<>> THEN <<>> ELSE <<Trim(Head(ps))>> \o MapTrim(Tail(ps))

\* Mutant of targetObjects: the empty pieces are kept
targetObjectsUnfiltered(q) == MapTrim(Split(q, <<>>))

\* query.split(',').map(s => s.trim()).filter(Boolean)
targetObjects(q) == SelectSeq(MapTrim(Split(q, <<>>)), LAMBDA x : x # <<>>)

\* Mutant of IdentifyDisabled: the button stays enabled while loading
IdentifyDisabledUnlessEmpty == videoFile = Null \/ IsBlank(Trim(query))

\* disabled={!videoFile || isLoading || !query.trim()}
IdentifyDisabled == videoFile = Null \/ isLoading \/ IsBlank(Trim(query))

\* disabled={isLoading} of the upload control and of the query input
InputsDisabled == isLoading

\* Mutant of SlotMatches: only the first record of a name takes an image
SlotMatchesFirstOfName(prev, index, name) ==
    /\ index \in 1..Len(prev) /\ prev[index].name = name
    /\ \A k \in 1..(index - 1) : prev[k].name # name

\* newObjects[index] && newObjects[index].name === obj.name
SlotMatches(prev, index, name) == index \in 1..Len(prev) /\ prev[index].name = name

AppQueries == {<<>>, <<",", SP>>, <<SP, "c", ",", "s">>}

AppTexts ==
    { <<>>, <<"[", "]">>, <<"[", "a", "]">>, <<"[", "b", "]">>, <<"[", "c", "]">>,
      <<"[", "a", ",", "c", "]">>, <<"[", "a", ",", "a", "]">>, <<"[", "null", "]">>, <<"null">>, <<"a">>,
      <<"overloaded">> }

AppCallErrors == {<<"503", "Service", "Unavailable">>, <<"429", "quota", "exceeded">>}

AppIdle ==
    /\ videoFile = Null /\ query = <<>> /\ identifiedObjects = <<>>
    /\ rawJsonOutput = Null /\ isLoading = FALSE /\ error = Null
    /\ pipelines = {} /\ runs = 0 /\ listRun = 0

Unsettled(ps) == {p \in ps : p.stage \in {"extracting", "drawing"}}

\* handleFileChange(file), from the file input or a drop
handleFileChange ==
    /\ ~InputsDisabled
    /\ \E f \in {Null} \cup {Some(x) : x \in Files} : videoFile' = f
    /\ identifiedObjects' = <<>>
    /\ rawJsonOutput' = Null
    /\ error' = Null
    /\ listRun' = 0
    /\ pipelines' = Unsettled(pipelines)
    /\ UNCHANGED <<apiKey, svcVars, drawVars, exVars, query, isLoading, runs>>

\* onChange of the query input
SetQuery ==
    /\ ~InputsDisabled
    /\ \E q \in AppQueries : query' = q
    /\ UNCHANGED <<apiKey, svcVars, drawVars, exVars, runVars,
                   videoFile, identifiedObjects, rawJsonOutput, isLoading, error>>

\* Mutant of handleIdentifyClick: the list of the previous run is kept
handleIdentifyClickKeepingList ==
    /\ ~IdentifyDisabled
    /\ runs < MaxRuns
    /\ isLoading' = TRUE
    /\ error' = Null
    /\ rawJsonOutput' = Null
    /\ runs' = runs + 1
    /\ pipelines' = Unsettled(pipelines)
    /\ identifyObjectsInVideo(videoFile[1], targetObjects(query))
    /\ UNCHANGED <<apiKey, drawVars, exVars, videoFile, query, identifiedObjects, listRun>>

\* handleIdentifyClick, up to its await of identifyObjectsInVideo
handleIdentifyClick ==
    /\ ~IdentifyDisabled
    /\ runs < MaxRuns
    /\ IF videoFile = Null
       THEN /\ error' = Some(ErrNoVideo)
            /\ UNCHANGED <<svcVars, runVars, identifiedObjects, rawJsonOutput, isLoading>>
       ELSE IF IsBlank(Trim(query))
       THEN /\ error' = Some(ErrNoQuery)
            /\ UNCHANGED <<svcVars, runVars, identifiedObjects, rawJsonOutput, isLoading>>
       ELSE /\ isLoading' = TRUE
            /\ error' = Null
            /\ identifiedObjects' = <<>>
            /\ rawJsonOutput' = Null
            /\ runs' = runs + 1
            /\ listRun' = 0
            /\ pipelines' = Unsettled(pipelines)
            /\ identifyObjectsInVideo(videoFile[1], targetObjects(query))
    /\ UNCHANGED <<apiKey, drawVars, exVars, videoFile, query>>

SvcReset ==
    /\ pc' = "idle" /\ i' = 0 /\ delay' = InitialDelay /\ args' = Null
    /\ result' = Null /\ thrown' = Null
    /\ calls' = 0 /\ encodes' = 0 /\ waits' = <<>> /\ log' = <<>> /\ lastResp' = Null

\* Mutant of initialObjects: the records are not created
initialObjectsMissing(elems) == <<>>

\* objectsWithData.map(obj => ({name, imageUrl: null, price, timestamp}))
initialObjects(elems) ==
    [k \in 1..Len(elems) |->
        [name |-> VideoObject(elems[k]).name, imageUrl |-> Null,
         price |-> VideoObject(elems[k]).price,
         timestamp |-> VideoObject(elems[k]).timestamp]]

\* objectsWithData.forEach(async (obj, index) => ...), each up to its first await
Launched(elems, file, run) ==
    {[run |-> run, index |-> k, tok |-> elems[k], file |-> file,
      stage |-> "extracting"] : k \in 1..Len(elems)}

\* handleIdentifyClick after identifyObjectsInVideo resolved
HandleResolved ==
    /\ pc = "returned"
    /\ LET r == result[1]
       IN  /\ rawJsonOutput' = Some(r.rawJson)
           /\ IF ~r.isArray
              THEN /\ error' = Some(IF r.scalar = "null" THEN TypeErrLength ELSE TypeErrMap)
                   /\ UNCHANGED <<identifiedObjects, runVars>>
              ELSE IF Len(r.elems) = 0
              THEN /\ identifiedObjects' = <<>>
                   /\ error' = Some(ErrNoMatch)
                   /\ UNCHANGED runVars
              ELSE IF \E k \in 1..Len(r.elems) : r.elems[k] \notin ObjTokens
              THEN /\ error' = Some(TypeErrName)
                   /\ UNCHANGED <<identifiedObjects, runVars>>
              ELSE /\ identifiedObjects' = initialObjects(r.elems)
                   /\ listRun' = runs
                   /\ pipelines' = pipelines \cup Launched(r.elems, args[1].file, runs)
                   /\ UNCHANGED <<error, runs>>
    /\ isLoading' = FALSE
    /\ SvcReset
    /\ UNCHANGED <<apiKey, drawVars, exVars, videoFile, query>>

\* Mutant of HandleRejected: the finally block is missing
HandleRejectedStillLoading ==
    /\ pc = "thrown"
    /\ error' = Some(IF thrown[1].isError THEN thrown[1].message ELSE ErrUnknown)
    /\ SvcReset
    /\ UNCHANGED <<apiKey, drawVars, exVars, runVars, videoFile, query,
                   identifiedObjects, rawJsonOutput, isLoading>>

\* handleIdentifyClick after identifyObjectsInVideo rejected
HandleRejected ==
    /\ pc = "thrown"
    /\ error' = Some(IF thrown[1].isError THEN thrown[1].message ELSE ErrUnknown)
    /\ isLoading' = FALSE
    /\ SvcReset
    /\ UNCHANGED <<apiKey, drawVars, exVars, runVars, videoFile, query,
                   identifiedObjects, rawJsonOutput>>

Staged(p, stage) == (pipelines \ {p}) \cup {[p EXCEPT !.stage = stage]}

\* extractFrameFromVideo resolves: drawBoundingBoxOnImage is called
ExtractResolves ==
    /\ \E p \in pipelines :
         p.stage = "extracting" /\ pipelines' = Staged(p, "drawing")
    /\ UNCHANGED <<apiKey, svcVars, appVars, drawVars, exVars, runs, listRun>>

\* Mutant of ExtractRejects: the rejection reaches the catch of the run
ExtractRejectsSurfaced ==
    /\ \E p \in pipelines :
         p.stage = "extracting" /\ pipelines' = Staged(p, "failed")
    /\ error' = Some("Video error during frame extraction")
    /\ UNCHANGED <<apiKey, svcVars, drawVars, exVars, runs, listRun,
                   videoFile, query, identifiedObjects, rawJsonOutput, isLoading>>

\* extractFrameFromVideo rejects: caught and logged
ExtractRejects ==
    /\ \E p \in pipelines :
         p.stage = "extracting" /\ pipelines' = Staged(p, "failed")
    /\ UNCHANGED <<apiKey, svcVars, appVars, drawVars, exVars, runs, listRun>>

\* setIdentifiedObjects(prev => ...) of a pipeline, on prev
WithImage(prev, p) ==
    IF SlotMatches(prev, p.index, VideoObject(p.tok).name)
    THEN [prev EXCEPT ![p.index].imageUrl = Some(FrameWithBox(p))]
    ELSE prev

\* drawBoundingBoxOnImage resolves: the pipeline stores its image
DrawResolves ==
    /\ \E p \in pipelines :
         /\ p.stage = "drawing"
         /\ identifiedObjects' = WithImage(identifiedObjects, p)
         /\ pipelines' = Staged(p, "done")
    /\ UNCHANGED <<apiKey, svcVars, drawVars, exVars, runs, listRun,
                   videoFile, query, rawJsonOutput, isLoading, error>>

\* drawBoundingBoxOnImage rejects: caught and logged
DrawRejects ==
    /\ \E p \in pipelines :
         p.stage = "drawing" /\ pipelines' = Staged(p, "failed")
    /\ UNCHANGED <<apiKey, svcVars, appVars, drawVars, exVars, runs, listRun>>

\* ------------------------------------------------- extractFrameFromVideo
\* One invocation: the promise executor, then the events of the video element.
\* Times are whole numbers of an arbitrary unit.
ErrFrameNoContext == "Could not get canvas context."
ErrVideo == "Video error during frame extraction"

VideoEvents == {"loadedmetadata", "seeked", "error"}

\* The timestamps a detection can name and the videos a file can hold
Times == -2 .. MaxDuration + 2
Videos == [duration : 0 .. MaxDuration, valid : BOOLEAN]

ExtractIdle ==
    /\ eTime = 0 /\ eVideo = [duration |-> 0, valid |-> TRUE]
    /\ ePc = "idle" /\ eListeners = {} /\ eUrl = "none" /\ eMedia = "empty"
    /\ eCurrentTime = 0 /\ eOut = Null /\ eErr = Null
    /\ eFrames = <<>> /\ eSettles = 0

\* new Promise((resolve, reject) => { ... }): the executor
ExtractorRuns ==
    /\ ePc = "idle"
    /\ \E context \in BOOLEAN :
         IF ~context
         THEN /\ ePc' = "rejected" /\ eErr' = Some(ErrFrameNoContext)
              /\ eSettles' = eSettles + 1
              /\ UNCHANGED <<eListeners, eUrl, eMedia>>
         ELSE /\ ePc' = "pending" /\ eListeners' = VideoEvents
              /\ eUrl' = "live" /\ eMedia' = "loading"
              /\ UNCHANGED <<eErr, eSettles>>
    /\ UNCHANGED <<apiKey, svcVars, appVars, runVars, drawVars,
                   eTime, eVideo, eCurrentTime, eOut, eFrames>>

\* Mutant of cleanup: the listeners are left on the element
cleanupKeepingListeners == eListeners' = eListeners /\ eUrl' = "revoked"

\* cleanup()
cleanup == eListeners' = eListeners \ VideoEvents /\ eUrl' = "revoked"

\* The element fires loadedmetadata; onLoadedMetadata assigns currentTime,
\* which starts a seek
onLoadedMetadata ==
    /\ eMedia = "loading"
    /\ IF "loadedmetadata" \in eListeners
       THEN /\ eCurrentTime' = SeekTime(eTime, eVideo.duration)
            /\ eMedia' = "seeking"
       ELSE /\ eMedia' = "metadata"
            /\ UNCHANGED eCurrentTime
    /\ UNCHANGED <<apiKey, svcVars, appVars, runVars, drawVars,
                   eTime, eVideo, ePc, eListeners, eUrl, eOut, eErr, eFrames, eSettles>>

\* The element fires seeked; onSeeked draws the frame, cleans up and resolves
onSeeked ==
    /\ eMedia = "seeking"
    /\ eMedia' = "seeked"
    /\ IF "seeked" \in eListeners
       THEN /\ eFrames' = Append(eFrames, eCurrentTime)
            /\ cleanup
            /\ eSettles' = eSettles + 1
            /\ IF ePc = "pending"
               THEN ePc' = "resolved" /\ eOut' = Some([time |-> eCurrentTime])
               ELSE UNCHANGED <<ePc, eOut>>
       ELSE UNCHANGED <<eFrames, eListeners, eUrl, eSettles, ePc, eOut>>
    /\ UNCHANGED <<apiKey, svcVars, appVars, runVars, drawVars,
                   eTime, eVideo, eCurrentTime, eErr>>

\* The element fires error, for media it cannot decode or can no longer
\* fetch; onError cleans up and rejects
onError ==
    /\ eMedia \in {"loading", "seeking", "seeked"}
    /\ ~eVideo.valid \/ eUrl = "revoked"
    /\ eMedia' = "error"
    /\ IF "error" \in eListeners
       THEN /\ cleanup
            /\ eSettles' = eSettles + 1
            /\ IF ePc = "pending"
               THEN ePc' = "rejected" /\ eErr' = Some(ErrVideo)
               ELSE UNCHANGED <<ePc, eErr>>
       ELSE UNCHANGED <<eListeners, eUrl, eSettles, ePc, eErr>>
    /\ UNCHANGED <<apiKey, svcVars, appVars, runVars, drawVars,
                   eTime, eVideo, eCurrentTime, eOut, eFrames>>

\* ------------------------------------------- the detection client on its own
TargetLists == {<<>>, << <<"c">> >>, << <<"c">>, <<"s">> >>}

InitService == apiKey \in BOOLEAN /\ SvcIdle /\ AppIdle /\ DrawIdle /\ ExtractIdle

ServiceInvoke ==
    /\ pc = "idle"
    /\ \E f \in Files, ts \in TargetLists : identifyObjectsInVideo(f, ts)
    /\ UNCHANGED <<apiKey, appVars, runVars, drawVars, exVars>>

NextService ==
    \/ ServiceInvoke
    \/ EncodeResolves
    \/ EncodeRejects
    \/ GenerateContentResolves(Texts)
    \/ GenerateContentRejects(CallErrorMessages)
    \/ TimerFires

SpecService == InitService /\ [][NextService]_vars

\* ----------------------------------------------- the annotator on its own
InitDraw ==
    /\ apiKey = TRUE /\ SvcIdle /\ AppIdle /\ ExtractIdle
    /\ dBox \in Boxes /\ dW \in Sizes /\ dH \in Sizes
    /\ dPc = "loading" /\ dOut = Null /\ dErr = Null

NextDraw == ImgOnLoad \/ ImgOnError

SpecDraw == InitDraw /\ [][NextDraw]_vars

\* ------------------------------------------- the frame extractor on its own
InitExtract ==
    /\ apiKey = TRUE /\ SvcIdle /\ AppIdle /\ DrawIdle
    /\ eTime \in Times /\ eVideo \in Videos
    /\ ePc = "idle" /\ eListeners = {} /\ eUrl = "none" /\ eMedia = "empty"
    /\ eCurrentTime = 0 /\ eOut = Null /\ eErr = Null
    /\ eFrames = <<>> /\ eSettles = 0

NextExtract == ExtractorRuns \/ onLoadedMetadata \/ onSeeked \/ onError

SpecExtract == InitExtract /\ [][NextExtract]_vars

\* ----------------------------------- the query handed to the detection client
\* A query is a sequence of spaces, commas and words
QueryTokens == {SP, ",", "chair", "sofa"}
ExampleQuery == <<SP, SP, ",", SP, "chair", SP, ",", ",", "sofa", SP>>
Queries == SeqsUpTo(QueryTokens, MaxQueryLen) \cup {ExampleQuery}

\* A video is selected and a query typed; Identify is clicked
InitQuery ==
    /\ apiKey = TRUE /\ SvcIdle /\ DrawIdle /\ ExtractIdle
    /\ videoFile \in {Some(f) : f \in Files} /\ query \in Queries
    /\ identifiedObjects = <<>> /\ rawJsonOutput = Null
    /\ isLoading = FALSE /\ error = Null
    /\ pipelines = {} /\ runs = 0 /\ listRun = 0

NextQuery == handleIdentifyClick

SpecQuery == InitQuery /\ [][NextQuery]_vars

\* ------------------------------------------------------ the application
Init == apiKey \in BOOLEAN /\ SvcIdle /\ AppIdle /\ DrawIdle /\ ExtractIdle

Next ==
    \/ handleFileChange
    \/ SetQuery
    \/ handleIdentifyClick
    \/ EncodeResolves
    \/ EncodeRejects
    \/ GenerateContentResolves(AppTexts)
    \/ GenerateContentRejects(AppCallErrors)
    \/ TimerFires
    \/ HandleResolved
    \/ HandleRejected
    \/ ExtractResolves
    \/ ExtractRejects
    \/ DrawResolves
    \/ DrawRejects

Spec == Init /\ [][Next]_vars

\* ===================================================================== claims
\* C1: a pipeline of an earlier run never writes its image into a slot of the
\* list of a later run, also when the later run's object at that index has
\* the same name: every image in the list was made by a pipeline of the run
\* the list belongs to.
C1_NoStaleImage ==
    \A k \in 1..Len(identifiedObjects) :
        identifiedObjects[k].imageUrl # Null =>
            identifiedObjects[k].imageUrl[1].by[1] = listRun

\* C6: identifyObjectsInVideo is never invoked without a video or with a query
\* that yields no target name: the client only ever gets a non-empty target
\* list.
C6_NeverCalledWithoutTargets ==
    args # Null => args[1].file \in Files /\ args[1].targets # <<>>

Slot(p) == identifiedObjects[p.index]

\* A step in which the pipeline of some object fails
PipelineFails ==
    \E p \in pipelines, q \in pipelines' :
        /\ q.run = p.run /\ q.index = p.index
        /\ p.stage # "failed" /\ q.stage = "failed"

\* C7: in the run the list belongs to, the slot of an object whose pipeline
\* failed gets no image from that run, the slot of every object whose pipeline
\* completed has its image set, and the failure itself changes neither the
\* error, nor the raw JSON, nor the list.
C7_FrameFailureIsolated ==
    /\ [](\A p \in pipelines :
            p.run = listRun =>
              /\ p.stage = "failed" =>
                    \/ Slot(p).imageUrl = Null
                    \/ Slot(p).imageUrl[1].by[1] # p.run
              /\ p.stage = "done" => Slot(p).imageUrl # Null)
    /\ [][PipelineFails => UNCHANGED <<identifiedObjects, rawJsonOutput, error>>]_vars

C7_Witness ==
    \E p \in pipelines, q \in pipelines :
        /\ p.run = listRun /\ q.run = listRun /\ runs = 1
        /\ p.stage = "failed" /\ Slot(p).imageUrl = Null
        /\ q.stage = "done" /\ Slot(q).imageUrl = Some(FrameWithBox(q))
        /\ error = Null /\ rawJsonOutput # Null

\* The box is inverted or empty, as given or once clamped to the image
Degenerate(box) ==
    \/ box.x_min >= box.x_max
    \/ box.y_min >= box.y_max
    \/ (IF box.x_min < 0 THEN 0 ELSE box.x_min) >= (IF box.x_max > 20 THEN 20 ELSE box.x_max)
    \/ (IF box.y_min < 0 THEN 0 ELSE box.y_min) >= (IF box.y_max > 20 THEN 20 ELSE box.y_max)

\* C9: for an inverted or degenerate box drawBoundingBoxOnImage draws no
\* rectangle and resolves with the image without an overlay; it fails only
\* for want of a canvas context or of a loadable image, never for the box.
C9_DegenerateBoxSkipped ==
    (Degenerate(dBox) /\ dPc # "loading") =>
        /\ dPc = "resolved" =>
              dOut = Some([width |-> dW, height |-> dH, rect |-> Null])
        /\ dPc = "rejected" =>
              dOut = Null /\ dErr \in {Some(ErrNoContext), Some(ErrImageLoad)}

C9_Witness ==
    /\ dBox = Box(12, 8, 5, 12) /\ dW = 400 /\ dH = 400
    /\ dPc = "resolved" /\ dOut # Null /\ dOut[1].rect = Null

\* C10: a drawn rectangle has the corners x1 = max(0, x_min*width),
\* y1 = max(0, y_min*height), x2 = min(width, x_max*width),
\* y2 = min(height, y_max*height), so 0 <= x1 < x2 <= width and
\* 0 <= y1 < y2 <= height; the box (0.25, 0.4, 0.45, 0.6) on a 400 by 400
\* image gives (100,160)-(180,240).
C10_RectangleCorners ==
    (dPc = "resolved" /\ dOut[1].rect # Null) =>
        LET r == dOut[1].rect[1]
            x1 == r.x
            y1 == r.y
            x2 == r.x + r.width
            y2 == r.y + r.height
        IN  /\ 0 <= x1 /\ x1 < x2 /\ x2 <= 20 * dW
            /\ 0 <= y1 /\ y1 < y2 /\ y2 <= 20 * dH
            /\ x1 = (IF dBox.x_min < 0 THEN 0 ELSE dBox.x_min * dW)
            /\ y1 = (IF dBox.y_min < 0 THEN 0 ELSE dBox.y_min * dH)
            /\ x2 = (IF dBox.x_max > 20 THEN 20 * dW ELSE dBox.x_max * dW)
            /\ y2 = (IF dBox.y_max > 20 THEN 20 * dH ELSE dBox.y_max * dH)
            /\ (dBox = Box(5, 8, 9, 12) /\ dW = 400 /\ dH = 400) =>
                  /\ x1 = 20 * 100 /\ y1 = 20 * 160
                  /\ x2 = 20 * 180 /\ y2 = 20 * 240

C10_Witness ==
    /\ dBox = Box(5, 8, 9, 12) /\ dW = 400 /\ dH = 400
    /\ dPc = "resolved" /\ dOut # Null /\ dOut[1].rect # Null
    /\ dOut[1].rect[1].x = 2000 /\ dOut[1].rect[1].width = 1600

\* The provider's rejections that signal overload: the message holds "503",
\* "UNAVAILABLE" or "overloaded".
TransientCallErrors ==
    { <<"503", "Service", "Unavailable">>,
      <<"status:", "UNAVAILABLE">>,
      <<"The", "model", "is", "overloaded">> }

TransientFailure(e) == e.kind = "callError" /\ e.msg \in TransientCallErrors

NonTransientFailure(e) ==
    \/ e.kind \in {"noText", "badJson"}
    \/ e.kind = "callError" /\ e.msg \notin TransientCallErrors

AllTransient == \A k \in 1..Len(log) : TransientFailure(log[k])

Settled == pc \in {"returned", "thrown"}

\* C2: when every call fails with a transient failure the client makes exactly
\* 3 calls, waits 1000 ms before the second and 2000 ms before the third,
\* nothing after the third, and then throws one terminal failure; whatever the
\* outcomes, it never makes more than 3 calls.
C2_RetrySequence ==
    /\ calls <= 3
    /\ AllTransient =>
        /\ Len(log) <= 3
        /\ Len(log) \in 1..2 =>
              /\ ~Settled
              /\ waits = SubSeq(<<1000, 2000>>, 1, Len(log))
              /\ calls = IF pc = "waiting" THEN Len(log) ELSE Len(log) + 1
        /\ Len(log) = 3 =>
              /\ pc = "thrown" /\ thrown = Some(Error(ErrFailed)) /\ result = Null
              /\ calls = 3 /\ waits = <<1000, 2000>>

C2_Witness == AllTransient /\ Len(log) = 3 /\ pc = "thrown" /\ calls = 3

\* C3: a transient failure followed by a success returns the second call's
\* parsed result with no third call; no call is ever made after a success.
C3_SuccessStopsRetrying ==
    /\ \A k \in 1..Len(log) :
          log[k].kind = "ok" => k = Len(log) /\ pc = "returned" /\ calls = k
    /\ (Len(log) = 2 /\ TransientFailure(log[1]) /\ log[2].kind = "ok") =>
          /\ calls = 2 /\ waits = <<1000>> /\ thrown = Null
          /\ lastResp # Null /\ lastResp[1] # Null /\ result # Null
          /\ LET text == Trim(lastResp[1][1])
             IN  text # <<>> =>
                   /\ result[1].rawJson = text
                   /\ result[1].isArray = JSONParse(text).isArray
                   /\ result[1].elems = JSONParse(text).elems
                   /\ result[1].scalar = JSONParse(text).scalar

C3_Witness ==
    /\ Len(log) = 2 /\ TransientFailure(log[1]) /\ log[2].kind = "ok"
    /\ pc = "returned" /\ result # Null /\ result[1].elems = <<"a">>

\* C4: a non-transient failure of an attempt, an invalid or missing response
\* text included, is surfaced at once as the terminal failure: no wait and no
\* call follows it, and nothing is returned.
C4_NonTransientSurfacedAtOnce ==
    \A k \in 1..Len(log) :
        NonTransientFailure(log[k]) =>
            /\ k = Len(log) /\ calls = k /\ Len(waits) = k - 1
            /\ pc = "thrown" /\ thrown = Some(Error(ErrFailed)) /\ result = Null

\* The response text of the latest call is empty, whitespace only, or an empty
\* JSON array.
EmptyResponse ==
    /\ lastResp # Null /\ lastResp[1] # Null
    /\ LET text == Trim(lastResp[1][1])
       IN  \/ text = <<>>
           \/ JSONParse(text).ok /\ JSONParse(text).isArray /\ JSONParse(text).elems = <<>>

ReturnedEmpty ==
    /\ pc = "returned" /\ thrown = Null /\ result # Null
    /\ result[1].isArray /\ result[1].elems = <<>>
    /\ log[Len(log)].kind = "ok" /\ calls = Len(log)

\* C5 as stated: an empty JSON array or an empty (whitespace-only) text gives
\* an empty objects list with rawJson "[]", without a throw or a retry.
C5_EmptyGivesBrackets ==
    EmptyResponse => ReturnedEmpty /\ result[1].rawJson = <<"[", "]">>

\* C5 amended: an empty JSON array or an empty (whitespace-only) text gives an
\* empty objects list, without a throw or a retry; rawJson is "[]" for an
\* empty text and the trimmed response text otherwise.
C5_EmptyGivesTrimmedText ==
    EmptyResponse =>
        /\ ReturnedEmpty
        /\ LET text == Trim(lastResp[1][1])
           IN  result[1].rawJson = IF text = <<>> THEN <<"[", "]">> ELSE text

C5_Witness ==
    /\ EmptyResponse /\ ReturnedEmpty
    /\ lastResp[1][1] = <<SP>> /\ result[1].rawJson = <<"[", "]">>

\* C8: without the credential the client fails with the configuration error
\* before the video is encoded and before any call: zero calls are made.
C8_NoCredentialNoCall ==
    ~apiKey =>
        /\ calls = 0 /\ encodes = 0 /\ log = <<>>
        /\ pc \in {"idle", "thrown"}
        /\ pc = "thrown" => thrown = Some(Error(ErrApiKey)) /\ result = Null

C8_Witness == ~apiKey /\ pc = "thrown" /\ args # Null

\* The position min(max(0, t), d), case by case
Clamped(t, d) == IF t < 0 THEN 0 ELSE IF t > d THEN d ELSE t

\* C11: for every timestamp t and every valid video of duration d the
\* extraction seeks to min(max(0, t), d): 0 for a negative t, d for a t beyond
\* d, t itself inside [0, d]; the frame it resolves with is the one at that
\* position, and on a valid video it rejects only for want of a canvas
\* context, never for the timestamp.
C11_SeekClamped ==
    /\ eMedia \in {"seeking", "seeked"} =>
          eCurrentTime = Clamped(eTime, eVideo.duration)
    /\ ePc = "resolved" =>
          /\ eOut = Some([time |-> Clamped(eTime, eVideo.duration)])
          /\ eFrames = <<Clamped(eTime, eVideo.duration)>>
    /\ (eVideo.valid /\ ePc = "rejected") =>
          eErr = Some(ErrFrameNoContext) /\ eMedia = "empty"

C11_Witness ==
    /\ eVideo.valid /\ eTime > eVideo.duration /\ eVideo.duration > 0
    /\ ePc = "resolved" /\ eOut = Some([time |-> eVideo.duration])

\* The segments of q between its commas, by position: a segment starts at 1
\* or after a comma and ends before the next comma or at the end of q.
SegmentStarts(q) == {1} \cup {k + 1 : k \in {j \in 1..Len(q) : q[j] = ","}}
SegmentEnd(q, a) ==
    CHOOSE e \in (a - 1)..Len(q) :
        /\ e = Len(q) \/ q[e + 1] = ","
        /\ \A j \in a..e : q[j] # ","
WordsAt(q, a) == {j \in a..SegmentEnd(q, a) : q[j] # SP}
Least(S) == CHOOSE x \in S : \A y \in S : x <= y
Greatest(S) == CHOOSE x \in S : \A y \in S : x >= y

\* The segments that hold a word, each from its first to its last word, in
\* the order of their positions
ExpectedTargets(q) ==
    LET starts == {a \in SegmentStarts(q) : WordsAt(q, a) # {}}
        nth(n) == CHOOSE a \in starts : Cardinality({b \in starts : b <= a}) = n
    IN  [n \in 1..Cardinality(starts) |->
            SubSeq(q, Least(WordsAt(q, nth(n))), Greatest(WordsAt(q, nth(n))))]

\* C12: the target list passed to identifyObjectsInVideo is the query split
\* on commas, each piece trimmed, the empty pieces removed, in the original
\* order; "  , chair ,,sofa " gives ["chair", "sofa"]; no element of the list
\* is empty, holds a comma, or starts or ends with whitespace.
C12_TargetsSplitTrimmed ==
    args # Null =>
        LET ts == args[1].targets
        IN  /\ ts = ExpectedTargets(query)
            /\ \A k \in 1..Len(ts) :
                  /\ ts[k] # <<>>
                  /\ ts[k][1] # SP /\ ts[k][Len(ts[k])] # SP
                  /\ ~Includes(ts[k], ",")
            /\ query = ExampleQuery => ts = << <<"chair">>, <<"sofa">> >>

C12_Witness ==
    /\ query = ExampleQuery /\ args # Null
    /\ args[1].targets = << <<"chair">>, <<"sofa">> >>

\* C13: a record is created with imageUrl = null when detection returns, and
\* its imageUrl is written at most once: over any runs, file changes and
\* pipeline completions, a slot of the current list that holds an image is
\* never given another one.
C13_SlotWrittenOnce ==
    [][/\ (pc = "returned" /\ pc' = "idle") =>
              \A k \in 1..Len(identifiedObjects') :
                  identifiedObjects'[k].imageUrl = Null
       /\ \A k \in 1..Len(identifiedObjects) :
              (/\ k <= Len(identifiedObjects')
               /\ identifiedObjects[k].imageUrl # Null
               /\ identifiedObjects'[k].imageUrl # Null) =>
                  identifiedObjects'[k].imageUrl = identifiedObjects[k].imageUrl]_vars

\* The messages a terminal failure of a run leaves in error
FailureMessages ==
    {ErrApiKey, ErrFailed, ErrExhausted, ErrUnknown, TypeErrLength, TypeErrMap, TypeErrName}

\* The object list of the result cannot be turned into display records
Unbuildable(r) ==
    ~r.isArray \/ \E k \in 1..Len(r.elems) : r.elems[k] \notin ObjTokens

\* A step in which a run ends in a terminal failure
RunFails ==
    /\ pc' = "idle"
    /\ pc = "thrown" \/ (pc = "returned" /\ Unbuildable(result[1]))

\* C14: a terminal failure of a run, thrown by identifyObjectsInVideo or
\* raised while the result list is built, leaves the list empty and one error
\* message set; while that message stands the list stays empty, also when
\* pipelines of earlier runs complete.
C14_FailureShowsNothing ==
    /\ []((error # Null /\ error[1] \in FailureMessages) => identifiedObjects = <<>>)
    /\ [][RunFails =>
            /\ error' # Null /\ error'[1] \in FailureMessages
            /\ identifiedObjects' = <<>>]_vars

C14_Witness ==
    /\ error = Some(ErrFailed) /\ identifiedObjects = <<>> /\ ~isLoading /\ runs = 2
    /\ \E p \in pipelines : p.run = 1 /\ p.stage = "done"

\* C15: in a run that no later run or file change has replaced, the
\* completion of an object's pipeline sets that object's imageUrl to the
\* pipeline's image, in whatever order the pipelines complete and whatever
\* becomes of the sibling pipelines, also when objects of the run share a name
\* or a timestamp; in a first run the image then stays.
C15_CompletedImageSet ==
    /\ [](\A p \in pipelines :
            (runs = 1 /\ p.run = listRun /\ p.stage = "done") =>
                Slot(p).imageUrl = Some(FrameWithBox(p)))
    /\ [][\A p \in pipelines :
            (/\ p.stage = "drawing" /\ p.run = listRun
             /\ pipelines' = Staged(p, "done")) =>
                identifiedObjects'[p.index].imageUrl = Some(FrameWithBox(p))]_vars

\* The second of two objects of one name and one timestamp has its image
\* while the first one's pipeline has not settled.
C15_Witness ==
    \E p \in pipelines, q \in pipelines :
        /\ p.run = listRun /\ q.run = listRun
        /\ q.index = 1 /\ p.index = 2 /\ p.tok = q.tok
        /\ q.stage = "extracting" /\ Slot(q).imageUrl = Null
        /\ p.stage = "done" /\ Slot(p).imageUrl = Some(FrameWithBox(p))

\* C16: the pipelines of a run are launched in the step that handles the
\* returned, non-empty object list, the step that sets the raw JSON and the
\* initial list with null images: each starts at its frame extraction, none
\* exists while the run's call is in flight, and none is launched when
\* detection fails or returns an empty list.
C16_PipelinesAfterDetection ==
    /\ [](\A p \in pipelines :
            p.run < runs \/ (p.run = runs /\ pc = "idle" /\ ~isLoading))
    /\ [][LET launched ==
                {q \in pipelines' :
                    ~\E p \in pipelines : p.run = q.run /\ p.index = q.index}
          IN  launched # {} =>
                /\ pc = "returned" /\ result # Null
                /\ result[1].isArray /\ Len(result[1].elems) > 0
                /\ rawJsonOutput' = Some(result[1].rawJson)
                /\ error' = Null
                /\ Len(identifiedObjects') = Len(result[1].elems)
                /\ \A k \in 1..Len(identifiedObjects') :
                      identifiedObjects'[k].imageUrl = Null
                /\ \A q \in launched :
                      /\ q.run = runs /\ q.stage = "extracting"
                      /\ q.index \in 1..Len(result[1].elems)]_vars

C16_Witness ==
    /\ runs = 1 /\ listRun = 1 /\ pc = "idle" /\ rawJsonOutput # Null
    /\ Cardinality(pipelines) = 2 /\ Len(identifiedObjects) = 2
    /\ \A p \in pipelines : p.stage = "extracting" /\ Slot(p).imageUrl = Null

\* C17 as stated: the detection call is bounded by 3 attempts with backoff
\* delays of 1 s, 2 s and 4 s: three transient failures wait 1000, 2000 and
\* 4000 ms.
C17_ThreeBackoffDelays ==
    /\ calls <= 3
    /\ (AllTransient /\ Len(log) = 3) => waits = <<1000, 2000, 4000>>

\* C17 amended: the detection call is bounded by 3 attempts with at most two
\* backoff delays, 1 s before the second attempt and 2 s before the third;
\* the delay is doubled to 4 s after the second wait but no wait of 4 s is
\* ever made.
C17_TwoBackoffDelays ==
    /\ calls <= 3
    /\ Len(waits) <= 2 /\ waits = SubSeq(<<1000, 2000>>, 1, Len(waits))
    /\ calls >= 1 => Len(waits) = (IF pc = "waiting" THEN calls ELSE calls - 1)
    /\ delay \in {1000, 2000, 4000}
    /\ delay = 4000 => calls = 3 /\ pc # "waiting"

C17_Witness ==
    /\ AllTransient /\ Len(log) = 3 /\ pc = "thrown"
    /\ calls = 3 /\ waits = <<1000, 2000>> /\ delay = 4000

\* A step in which a run ends with an empty object list
RunFindsNothing ==
    /\ pc = "returned" /\ pc' = "idle"
    /\ result[1].isArray /\ result[1].elems = <<>>

\* C18: a detection that succeeds with an empty list leaves the message "No
\* matching objects were found", the raw JSON and an empty list; a terminal
\* failure leaves another message, so the two outcomes differ in the
\* application state for every run, and the no-match message is only ever
\* shown with the raw JSON set and an empty list.
C18_NoMatchDistinct ==
    /\ [](error = Some(ErrNoMatch) =>
            rawJsonOutput # Null /\ identifiedObjects = <<>> /\ ~isLoading)
    /\ [][/\ RunFindsNothing =>
               /\ error' = Some(ErrNoMatch) /\ identifiedObjects' = <<>>
               /\ rawJsonOutput' = Some(result[1].rawJson)
          /\ RunFails => error' # Null /\ error' # Some(ErrNoMatch)
          /\ (pc = "thrown" /\ pc' = "idle") => rawJsonOutput' = Null]_vars

C18_Witness ==
    /\ error = Some(ErrNoMatch) /\ rawJsonOutput = Some(<<"[", "]">>)
    /\ identifiedObjects = <<>> /\ runs = 1

\* C19: isLoading is true exactly while a detection call is in flight: it is
\* set by the click that starts the call and reset in the step that handles
\* the call's outcome, found objects, empty result or failure alike, whatever
\* the pipelines are doing, so that a run can start while pipelines of the
\* previous run are pending.
C19_LoadingIffCallInFlight ==
    /\ [](isLoading <=> pc # "idle")
    /\ [][/\ runs' # runs => ~isLoading /\ isLoading'
          /\ (pc \in {"returned", "thrown"} /\ pc' = "idle") => ~isLoading']_vars

C19_Witness ==
    /\ isLoading /\ pc = "calling" /\ runs = 2
    /\ \E p \in pipelines : p.run = 1 /\ p.stage \in {"extracting", "drawing"}

\* C20: at most one identifyObjectsInVideo call is in flight: while isLoading
\* is true the Identify button, the query input and the upload control are
\* disabled, so a run starts, and the file or the query changes, only when no
\* call is in flight.
C20_SingleCallInFlight ==
    /\ [](isLoading => IdentifyDisabled /\ InputsDisabled)
    /\ [](pc # "idle" => isLoading)
    /\ [][(runs' # runs \/ videoFile' # videoFile \/ query' # query) =>
              pc = "idle" /\ ~isLoading]_vars

C20_Witness ==
    /\ isLoading /\ pc = "waiting" /\ IdentifyDisabled /\ InputsDisabled
    /\ videoFile # Null /\ ~IsBlank(Trim(query))

\* C21: rawJsonOutput is null or a text JSON.parse accepts, so the debug view
\* never throws: it is set only from a returned result, to "[]" for an empty
\* response text and to the trimmed response text that was parsed otherwise;
\* it is null while a detection call is in flight and after a failure thrown
\* by identifyObjectsInVideo.
C21_RawJsonParses ==
    /\ [](rawJsonOutput # Null => JSONParse(rawJsonOutput[1]).ok)
    /\ [](isLoading => rawJsonOutput = Null)
    /\ [][/\ (pc = "returned" /\ pc' = "idle") =>
               LET text == Trim(lastResp[1][1])
               IN  rawJsonOutput' = Some(IF text = <<>> THEN <<"[", "]">> ELSE text)
          /\ (pc = "thrown" /\ pc' = "idle") => rawJsonOutput' = Null
          /\ (rawJsonOutput' # rawJsonOutput /\ rawJsonOutput' # Null) =>
               pc = "returned"]_vars

C21_Witness ==
    /\ rawJsonOutput = Some(<<"[", "a", ",", "c", "]">>) /\ ~isLoading
    /\ JSONParse(rawJsonOutput[1]).elems = <<"a", "c">>

\* C22: an extraction settles at most once and captures at most one frame:
\* from the first seeked or error event on, cleanup has removed the three
\* listeners and revoked the object URL, on the success path and on the error
\* path alike, so that a later event of the element reaches no handler and
\* changes neither the promise nor the captured frame.
C22_SettlesOnce ==
    /\ [](/\ eSettles <= 1 /\ Len(eFrames) <= 1
          /\ ePc = "pending" =>
                eListeners = VideoEvents /\ eUrl = "live" /\ eSettles = 0
          /\ eMedia \in {"seeked", "error"} =>
                eListeners = {} /\ eUrl = "revoked" /\ eSettles = 1
          /\ ePc = "resolved" =>
                eUrl = "revoked" /\ eListeners = {} /\ Len(eFrames) = 1
          /\ (ePc = "rejected" /\ eErr = Some(ErrVideo)) =>
                eUrl = "revoked" /\ eListeners = {} /\ eFrames = <<>>)
    /\ [][eSettles >= 1 => UNCHANGED <<ePc, eOut, eErr, eFrames, eSettles>>]_vars

\* The element fired error after the frame was captured: nothing changed
C22_Witness ==
    /\ ePc = "resolved" /\ eMedia = "error" /\ eVideo.valid
    /\ eSettles = 1 /\ Len(eFrames) = 1 /\ eErr = Null
    /\ eListeners = {} /\ eUrl = "revoked"

\* C23: the throw after the retry loop ("Exhausted all retries to the Gemini
\* API.") is never reached: every iteration returns, throws, or waits and
\* continues with i < maxRetries - 1, so the loop variable never reaches
\* maxRetries and the function always exits from inside the loop.
C23_TrailingThrowUnreachable ==
    /\ [](/\ thrown # Some(Error(ErrExhausted))
          /\ i < maxRetries
          /\ pc = "waiting" => i < maxRetries - 1)
    /\ [][/\ pc = "calling" => pc' \in {"returned", "thrown", "waiting"}
          /\ pc = "waiting" => pc' = "calling" /\ i' = i + 1]_vars

\* The last iteration fails with a transient error and throws from the catch
C23_Witness ==
    /\ pc = "thrown" /\ i = maxRetries - 1 /\ thrown = Some(Error(ErrFailed))
    /\ Len(log) = maxRetries /\ TransientFailure(log[Len(log)])

====
